---------------------------- MODULE Spec2Model ----------------------------
(***************************************************************************)
(* A model of the LC-3 virtual machine of src/lc3.c: the register file,    *)
(* the 65,536-word memory, the fetch-decode-execute loop of main with its  *)
(* sixteen opcode cases, and the trap routines.  Words are 16-bit unsigned *)
(* integers; every C expression is evaluated in int and truncated where    *)
(* the code stores it into a uint16_t.                                     *)
(***************************************************************************)
EXTENDS Naturals, Integers, Sequences, FiniteSets

(* ------------------------------ bounds --------------------------------- *)

\* Number of words of the program image loaded at PC_START.
ProgLen == 2

\* Number of instructions fetched in a run.
MaxSteps == 3

\* Longest run of non-zero garbage words a string walk can meet once it has
\* left the memory array.
MaxUBTail == 1

(* ------------------------- program constants --------------------------- *)

TRAP_GETC == \h20
TRAP_OUT == \h21
TRAP_PUTS == \h22
TRAP_IN == \h23
TRAP_PUTSP == \h24
TRAP_HALT == \h25

MEMORY_MAX == 65536

R_R0 == 0
R_R7 == 7
R_PC == 8
R_COND == 9
R_COUNT == 10

FL_POS == 1
FL_ZRO == 2
FL_NEG == 4

OP_BR == 0
OP_ADD == 1
OP_LD == 2
OP_ST == 3
OP_JSR == 4
OP_AND == 5
OP_LDR == 6
OP_STR == 7
OP_RTI == 8
OP_NOT == 9
OP_LDI == 10
OP_STI == 11
OP_JMP == 12
OP_RES == 13
OP_LEA == 14
OP_TRAP == 15

R_BITMASK == \h7
BOOL_BITMASK == \h1

PC_START == \h3000

\* Memory-mapped keyboard status and data registers.
MR_KBSR == \hFE00
MR_KBDR == \hFE02

(* --------------------------- C arithmetic ------------------------------ *)

\* Conversion of an int to uint16_t.
U16(x) == x % MEMORY_MAX

\* x >> n and x << n on non-negative ints.
Shr(x, n) == x \div (2 ^ n)
Shl(x, n) == x * (2 ^ n)

RECURSIVE BitAnd(_, _)
\* x & y on non-negative ints.
BitAnd(x, y) ==
    IF x = 0 \/ y = 0 THEN 0
    ELSE (IF x % 2 = 1 /\ y % 2 = 1 THEN 1 ELSE 0) + 2 * BitAnd(x \div 2, y \div 2)

RECURSIVE BitOr(_, _)
\* x | y on non-negative ints.
BitOr(x, y) ==
    IF x = 0 THEN y
    ELSE IF y = 0 THEN x
    ELSE (IF x % 2 = 1 \/ y % 2 = 1 THEN 1 ELSE 0) + 2 * BitOr(x \div 2, y \div 2)

\* ~x on an operand promoted to int from uint16_t, stored back to uint16_t.
BitNot16(x) == U16(-1 - x)

\* A sign extension that forgets to set the upper bits.
sign_extend_nofill(x, bit_count) == x

\* A sign extension that tests the bit above the field's sign bit.
sign_extend_bitabove(x, bit_count) ==
    IF BitAnd(Shr(x, bit_count), 1) # 0
    THEN U16(BitOr(x, Shl(\hFFFF, bit_count)))
    ELSE x

\* uint16_t sign_extend(uint16_t x, int bit_count)
sign_extend(x, bit_count) ==
    IF BitAnd(Shr(x, bit_count - 1), 1) # 0
    THEN U16(BitOr(x, Shl(\hFFFF, bit_count)))
    ELSE x

(* ------------------------------ memory --------------------------------- *)

\* uint16_t memory[MEMORY_MAX] is a zero-initialised static array; the model
\* keeps the words that were ever stored and reads every other word as 0.
Mem(m, a) == IF a \in DOMAIN m THEN m[a] ELSE 0

ZeroMemory == [a \in {} |-> 0]

Store(m, a, v) == [x \in (DOMAIN m) \cup {a} |-> IF x = a THEN v ELSE m[x]]

\* void mem_write(uint16_t address, uint16_t val)
mem_write(m, address, val) == Store(m, U16(address), U16(val))

\* Outcome of polling the keyboard: <<>> when no key is waiting, <<b>> when
\* byte b is.
InBytes == {0, \h41}
KeyOutcomes == {<<>>} \cup {<<b>> : b \in InBytes}

\* The polls an access to `address` can see.
Poll(address) == IF U16(address) = MR_KBSR THEN KeyOutcomes ELSE {<<>>}

\* uint16_t mem_read(uint16_t address): the memory after the read.
mem_read_mem(m, address, key) ==
    IF U16(address) = MR_KBSR
    THEN IF key # <<>>
         THEN Store(Store(m, MR_KBSR, \h8000), MR_KBDR, key[1])
         ELSE Store(m, MR_KBSR, 0)
    ELSE m

\* uint16_t mem_read(uint16_t address): the value returned.
mem_read(m, address, key) == Mem(mem_read_mem(m, address, key), U16(address))

(* ---------------------------- image loader ----------------------------- *)

RECURSIVE read_image_words(_, _, _)
\* Words are stored from the origin on and dropped past the end of memory.
read_image_words(m, origin, words) ==
    IF words = <<>> \/ origin >= MEMORY_MAX THEN m
    ELSE read_image_words(Store(m, origin, Head(words)), origin + 1, Tail(words))

\* int read_image(const char* image_path)
read_image(m, image) == read_image_words(m, image.origin, image.words)

RECURSIVE read_images(_, _)
\* for (int j = 1; j < argc; ++j) read_image(argv[j])
read_images(m, images) ==
    IF images = <<>> THEN m
    ELSE read_images(read_image(m, Head(images)), Tail(images))

(* ---------------------------- register file ---------------------------- *)

\* A flag update that sets no flag for zero.
update_flags_nozero(rg, r) ==
    [rg EXCEPT ![R_COND] = IF rg[r] = 0 THEN 0
                           ELSE IF Shr(rg[r], 15) # 0 THEN FL_NEG ELSE FL_POS]

\* void update_flags(uint16_t r)
update_flags(rg, r) ==
    [rg EXCEPT ![R_COND] = IF rg[r] = 0 THEN FL_ZRO
                           ELSE IF Shr(rg[r], 15) # 0 THEN FL_NEG ELSE FL_POS]

\* Decoded fields of an instruction word.
Op(i) == Shr(i, 12)
DR(i) == BitAnd(Shr(i, 9), R_BITMASK)
SR1(i) == BitAnd(Shr(i, 6), R_BITMASK)
SR2(i) == BitAnd(i, R_BITMASK)
ImmFlag(i) == BitAnd(Shr(i, 5), BOOL_BITMASK)
LongFlag(i) == BitAnd(Shr(i, 11), BOOL_BITMASK)
Imm5(i) == sign_extend(BitAnd(i, \h1F), 5)
Offset6(i) == sign_extend(BitAnd(i, \h3F), 6)
PCOffset9(i) == sign_extend(BitAnd(i, \h1FF), 9)
\* A JSR offset taken as an unsigned field.
PCOffset11_unsigned(i) == BitAnd(i, \h7FF)
PCOffset11(i) == sign_extend(BitAnd(i, \h7FF), 11)
TrapVect(i) == BitAnd(i, \hFF)

(* ------------------------ the ISA's own reading ------------------------ *)

\* The instruction set's decoding, written without the code's helpers; the
\* histories and the properties are stated with it.

\* Bits lo .. lo+width-1 of a word, and the signed value of an n-bit field.
Field(i, lo, width) == (i \div (2 ^ lo)) % (2 ^ width)
Signed(v, n) == IF v >= 2 ^ (n - 1) THEN v - 2 ^ n ELSE v

\* The flag of a 16-bit value.
FlagOf(v) == IF v = 0 THEN FL_ZRO ELSE IF v >= 32768 THEN FL_NEG ELSE FL_POS

\* The effective address PC + sext(instr[8:0], 9) of the PC-relative
\* instructions, PC being the incremented one.
PCRelative(rg, i) == (rg[R_PC] + Signed(Field(i, 0, 9), 9)) % 65536

(* ------------------------------- inputs -------------------------------- *)

\* The instruction words a program image is made of.
ImageWords ==
    { \h103F,   \* ADD  R0, R0, #-1
      \h1021,   \* ADD  R0, R0, #1
      \h1000,   \* ADD  R0, R0, R0
      \h1242,   \* ADD  R1, R1, R2
      \h5020,   \* AND  R0, R0, #0
      \h5201,   \* AND  R1, R0, R1
      \h903F,   \* NOT  R0, R0
      \h927F,   \* NOT  R1, R1
      \h0801,   \* BRn  #1
      \h0401,   \* BRz  #1
      \h0201,   \* BRp  #1
      \h0FFE,   \* BRnzp #-2
      \hC000,   \* JMP  R0
      \hC1C0,   \* JMP  R7 (RET)
      \h4802,   \* JSR  #2
      \h4FFF,   \* JSR  #-1
      \h41C0,   \* JSRR R7
      \h4000,   \* JSRR R0
      \h2001,   \* LD   R0, #1
      \hA002,   \* LDI  R0, #2
      \h6200,   \* LDR  R1, R0, #0
      \hE001,   \* LEA  R0, #1
      \hE1FF,   \* LEA  R0, #-1
      \h3202,   \* ST   R1, #2
      \hB201,   \* STI  R1, #1
      \hB202,   \* STI  R1, #2
      \h7200,   \* STR  R1, R0, #0
      \hF020, \hF021, \hF022, \hF023, \hF024, \hF025,   \* TRAP GETC .. HALT
      \hF0FF,   \* TRAP with an unassigned vector
      \h8000,   \* RTI
      \hD000 }  \* reserved

\* The image files that may follow the program on the command line: none, a
\* string that reaches the last word of memory, data behind the program, or
\* three files: a backward branch at address 0, a pointer behind the program
\* and an STI in the word before KBSR.
DataImages ==
    { <<>>,
      <<[origin |-> \hFFFF, words |-> <<\h41, \h42>>]>>,
      <<[origin |-> PC_START + 2, words |-> <<\h7FFF, MR_KBSR>>]>>,
      <<[origin |-> 0, words |-> <<\h0FFE>>],                \* BRnzp #-2
        [origin |-> PC_START + 2, words |-> <<MR_KBSR - 1>>],
        [origin |-> MR_KBSR - 1, words |-> <<\hB000>>]>> }   \* STI R0, #0

\* What a read outside an array can give: <<>> when the access faults, <<v>>
\* when it yields the word v.
UBWords == {0, PC_START}
UBReads == {<<>>} \cup {<<v>> : v \in UBWords}

\* What a string walk meets behind the memory array: a run of non-zero words
\* ended by a zero word, or by a fault.
UBTails == UNION {[1..n -> {\h42}] : n \in 0..MaxUBTail}
UBWalks == [tail : UBTails, segv : BOOLEAN]

(* ------------------------------- state --------------------------------- *)

VARIABLES
    memory,     \* uint16_t memory[MEMORY_MAX], the stored words
    reg,        \* uint16_t reg[R_COUNT]
    instr,      \* the instruction word fetched last
    running,    \* int running
    pc,         \* where the process is: "fetch", "exec", or how it ended
    tty_raw,    \* the terminal is in raw (unbuffered, no echo) mode
    stdout,     \* the bytes written to standard output
    steps,      \* instructions fetched so far
    regAcc,     \* indices into reg used by the last step
    memAcc,     \* indices into memory used by the last step
    st_log,     \* history: for each address an ST targeted and nothing wrote
                \* since, the value its source register held
    hist,       \* history of the other instructions that later ones are
                \* related to: see HistAfter
    se          \* a call of sign_extend on its own: the arguments x and
                \* bit_count, and <<the value returned>> once it has returned

vars == <<memory, reg, instr, running, pc, tty_raw, stdout, steps, regAcc, memAcc,
          st_log, hist, se>>

\* main up to the loop: the images are loaded, SIGINT is caught, the terminal
\* is raw, COND = Z and PC = PC_START.
Init ==
    /\ \E code \in [1..ProgLen -> ImageWords], data \in DataImages :
          memory = read_images(ZeroMemory,
                               <<[origin |-> PC_START, words |-> code]>> \o data)
    /\ reg = [r \in 0..(R_COUNT - 1) |->
                IF r = R_COND THEN FL_ZRO ELSE IF r = R_PC THEN PC_START ELSE 0]
    /\ instr = 0
    /\ running = 1
    /\ pc = "fetch"
    /\ tty_raw = TRUE
    /\ stdout = <<>>
    /\ steps = 0
    /\ regAcc = {}
    /\ memAcc = {}
    /\ st_log = ZeroMemory
    /\ hist = [sti |-> ZeroMemory, link |-> <<>>, lea |-> ZeroMemory]
    /\ se = [x |-> 0, bit_count |-> 5, out |-> <<>>]

Live == pc \in {"fetch", "exec"}

\* The history once the words at `written` have been written.
Forget(log, written) == [a \in (DOMAIN log) \ written |-> log[a]]

\* The words a mem_read of `address` writes.
PollWrites(address, key) ==
    IF U16(address) = MR_KBSR
    THEN IF key # <<>> THEN {MR_KBSR, MR_KBDR} ELSE {MR_KBSR}
    ELSE {}

\* hist.sti: for each pointer slot PC + sext(offset9) of an executed STI, the
\* word the slot pointed to and the value the source register held, kept
\* while the word pointed to stays as it is.
StiKept(m) ==
    [s \in {s \in DOMAIN hist.sti :
               Mem(m, hist.sti[s].target) = Mem(memory, hist.sti[s].target)}
       |-> hist.sti[s]]

StiAfter(m) ==
    IF Field(instr, 12, 4) = OP_STI
    THEN Store(StiKept(m), PCRelative(reg, instr),
               [target |-> Mem(memory, PCRelative(reg, instr)),
                val |-> reg[Field(instr, 9, 3)]])
    ELSE StiKept(m)

\* hist.link: the address after the last executed JSR or JSRR, kept while R7
\* holds the value that instruction left in it; << >> when there is none.
LinkAfter(rg) ==
    IF Field(instr, 12, 4) = OP_JSR THEN <<reg[R_PC]>>
    ELSE IF rg[R_R7] = reg[R_R7] THEN hist.link
    ELSE <<>>

\* hist.lea: for each register an executed LEA loaded, the effective address
\* PC + sext(offset9) of that LEA, kept while the register holds the value
\* the LEA left in it.
LeaKept(rg) == [r \in {r \in DOMAIN hist.lea : rg[r] = reg[r]} |-> hist.lea[r]]

LeaAfter(rg) ==
    IF Field(instr, 12, 4) = OP_LEA
    THEN Store(LeaKept(rg), Field(instr, 9, 3), PCRelative(reg, instr))
    ELSE LeaKept(rg)

\* The history after a fetch that leaves the memory m.
HistFetched(m) == [sti |-> StiKept(m), link |-> hist.link, lea |-> hist.lea]

\* The history after the instruction in `instr` has left the registers rg
\* and the memory m.
HistAfter(rg, m) ==
    [sti |-> StiAfter(m), link |-> LinkAfter(rg), lea |-> LeaAfter(rg)]

(* ---------------------------- the main loop ---------------------------- *)

\* uint16_t instr = mem_read(reg[R_PC]++);
\* A fetch whose PC increment is not reduced to 16 bits.
Fetch_nowrap ==
    /\ pc = "fetch"
    /\ steps < MaxSteps
    /\ \E key \in Poll(reg[R_PC]) :
          /\ instr' = mem_read(memory, reg[R_PC], key)
          /\ memory' = mem_read_mem(memory, reg[R_PC], key)
          /\ st_log' = Forget(st_log, PollWrites(reg[R_PC], key))
          /\ hist' = HistFetched(mem_read_mem(memory, reg[R_PC], key))
    /\ reg' = [reg EXCEPT ![R_PC] = @ + 1]
    /\ pc' = "exec"
    /\ steps' = steps + 1
    /\ regAcc' = {R_PC}
    /\ memAcc' = {reg[R_PC]}
    /\ UNCHANGED <<running, tty_raw, stdout, se>>

Fetch ==
    /\ pc = "fetch"
    /\ steps < MaxSteps
    /\ \E key \in Poll(reg[R_PC]) :
          /\ instr' = mem_read(memory, reg[R_PC], key)
          /\ memory' = mem_read_mem(memory, reg[R_PC], key)
          /\ st_log' = Forget(st_log, PollWrites(reg[R_PC], key))
          /\ hist' = HistFetched(mem_read_mem(memory, reg[R_PC], key))
    /\ reg' = [reg EXCEPT ![R_PC] = U16(@ + 1)]
    /\ pc' = "exec"
    /\ steps' = steps + 1
    /\ regAcc' = {R_PC}
    /\ memAcc' = {reg[R_PC]}
    /\ UNCHANGED <<running, tty_raw, stdout, se>>

\* void restore_input_buffering() followed by the return from main.
Shutdown ==
    /\ tty_raw' = FALSE
    /\ pc' = "exit0"

\* `break` out of the switch: the loop tests `running` and either fetches
\* again or leaves the loop for the shutdown code.
Break(rg, m, ra, ma, log) ==
    /\ reg' = rg
    /\ memory' = m
    /\ regAcc' = ra
    /\ memAcc' = ma
    /\ st_log' = log
    /\ hist' = HistAfter(rg, m)
    /\ IF running # 0
       THEN pc' = "fetch" /\ tty_raw' = tty_raw
       ELSE Shutdown
    /\ UNCHANGED <<instr, running, stdout, steps, se>>

\* abort(): the process is killed by SIGABRT where it stands.
Abort(rg, m, ra, ma, out, run) ==
    /\ reg' = rg
    /\ memory' = m
    /\ regAcc' = ra
    /\ memAcc' = ma
    /\ stdout' = out
    /\ running' = run
    /\ pc' = "abort"
    /\ UNCHANGED <<instr, tty_raw, steps, st_log, hist, se>>

\* An access outside an array faulted: the process is killed by SIGSEGV.
Fault(rg, ra, ma) ==
    /\ reg' = rg
    /\ regAcc' = ra
    /\ memAcc' = ma
    /\ pc' = "segv"
    /\ UNCHANGED <<memory, instr, running, tty_raw, stdout, steps, st_log, hist, se>>

ExecADD ==
    /\ pc = "exec"
    /\ Op(instr) = OP_ADD
    /\ LET r0 == DR(instr)
           r1 == SR1(instr)
           r2 == SR2(instr)
           rg == IF ImmFlag(instr) # 0
                 THEN [reg EXCEPT ![r0] = U16(reg[r1] + Imm5(instr))]
                 ELSE [reg EXCEPT ![r0] = U16(reg[r1] + reg[r2])]
           ra == IF ImmFlag(instr) # 0 THEN {r0, r1, R_COND} ELSE {r0, r1, r2, R_COND}
       IN  Break(update_flags(rg, r0), memory, ra, {}, st_log)

ExecAND ==
    /\ pc = "exec"
    /\ Op(instr) = OP_AND
    /\ LET r0 == DR(instr)
           r1 == SR1(instr)
           r2 == SR2(instr)
           rg == IF ImmFlag(instr) # 0
                 THEN [reg EXCEPT ![r0] = BitAnd(reg[r1], Imm5(instr))]
                 ELSE [reg EXCEPT ![r0] = BitAnd(reg[r1], reg[r2])]
           ra == IF ImmFlag(instr) # 0 THEN {r0, r1, R_COND} ELSE {r0, r1, r2, R_COND}
       IN  Break(update_flags(rg, r0), memory, ra, {}, st_log)

\* reg[r0] = ~r1: the complement of the register number.
ExecNOT ==
    /\ pc = "exec"
    /\ Op(instr) = OP_NOT
    /\ LET r0 == DR(instr)
           r1 == SR1(instr)
           rg == [reg EXCEPT ![r0] = BitNot16(r1)]
       IN  Break(update_flags(rg, r0), memory, {r0, R_COND}, {}, st_log)

\* A branch that ignores the condition codes.
ExecBR_always ==
    /\ pc = "exec"
    /\ Op(instr) = OP_BR
    /\ Break([reg EXCEPT ![R_PC] = U16(@ + PCOffset9(instr))], memory,
             {R_COND, R_PC}, {}, st_log)

ExecBR ==
    /\ pc = "exec"
    /\ Op(instr) = OP_BR
    /\ LET n == BitAnd(Shr(instr, 11), BOOL_BITMASK)
           z == BitAnd(Shr(instr, 10), BOOL_BITMASK)
           p == BitAnd(Shr(instr, 9), BOOL_BITMASK)
           taken == \/ (n # 0 /\ reg[R_COND] = FL_NEG)
                    \/ (z # 0 /\ reg[R_COND] = FL_ZRO)
                    \/ (p # 0 /\ reg[R_COND] = FL_POS)
           rg == IF taken
                 THEN [reg EXCEPT ![R_PC] = U16(@ + PCOffset9(instr))]
                 ELSE reg
       IN  Break(rg, memory, IF taken THEN {R_COND, R_PC} ELSE {R_COND}, {}, st_log)

\* A JMP that saves a link in R7, as JSRR does.
ExecJMP_link ==
    /\ pc = "exec"
    /\ Op(instr) = OP_JMP
    /\ LET base_r == SR1(instr)
       IN  Break([reg EXCEPT ![R_PC] = reg[base_r], ![R_R7] = reg[R_PC]], memory,
                 {R_PC, R_R7, base_r}, {}, st_log)

ExecJMP ==
    /\ pc = "exec"
    /\ Op(instr) = OP_JMP
    /\ LET base_r == SR1(instr)
       IN  Break([reg EXCEPT ![R_PC] = reg[base_r]], memory, {R_PC, base_r}, {}, st_log)

\* A JSR/JSRR that reads the base register before it saves the link.
ExecJSR_readfirst ==
    /\ pc = "exec"
    /\ Op(instr) = OP_JSR
    /\ LET base_r == SR1(instr)
           rg7 == [reg EXCEPT ![R_R7] = reg[R_PC]]
           rg == IF LongFlag(instr) = 0
                 THEN [rg7 EXCEPT ![R_PC] = reg[base_r]]
                 ELSE [rg7 EXCEPT ![R_PC] = U16(PCOffset11(instr) + rg7[R_R7])]
       IN  Break(rg, memory,
                 IF LongFlag(instr) = 0 THEN {R_R7, R_PC, base_r} ELSE {R_R7, R_PC},
                 {}, st_log)

ExecJSR ==
    /\ pc = "exec"
    /\ Op(instr) = OP_JSR
    /\ LET base_r == SR1(instr)
           rg7 == [reg EXCEPT ![R_R7] = reg[R_PC]]
           rg == IF LongFlag(instr) = 0
                 THEN [rg7 EXCEPT ![R_PC] = rg7[base_r]]
                 ELSE [rg7 EXCEPT ![R_PC] = U16(PCOffset11(instr) + rg7[R_R7])]
       IN  Break(rg, memory,
                 IF LongFlag(instr) = 0 THEN {R_R7, R_PC, base_r} ELSE {R_R7, R_PC},
                 {}, st_log)

ExecLD ==
    /\ pc = "exec"
    /\ Op(instr) = OP_LD
    /\ LET r0 == DR(instr)
           addr == U16(reg[R_PC] + PCOffset9(instr))
       IN  \E key \in Poll(addr) :
              Break(update_flags([reg EXCEPT ![r0] = mem_read(memory, addr, key)], r0),
                    mem_read_mem(memory, addr, key),
                    {r0, R_PC, R_COND}, {addr},
                    Forget(st_log, PollWrites(addr, key)))

ExecLDI ==
    /\ pc = "exec"
    /\ Op(instr) = OP_LDI
    /\ LET r0 == DR(instr)
           slot == U16(reg[R_PC] + PCOffset9(instr))
       IN  \E key1 \in Poll(slot) :
              LET m1 == mem_read_mem(memory, slot, key1)
                  addr == mem_read(memory, slot, key1)
              IN  \E key2 \in Poll(addr) :
                     Break(update_flags([reg EXCEPT ![r0] = mem_read(m1, addr, key2)], r0),
                           mem_read_mem(m1, addr, key2),
                           {r0, R_PC, R_COND}, {slot, addr},
                           Forget(st_log, PollWrites(slot, key1)
                                             \cup PollWrites(addr, key2)))

\* An LDR that adds its offset to the PC, as LD does, not to the base register.
ExecLDR_pcbase ==
    /\ pc = "exec"
    /\ Op(instr) = OP_LDR
    /\ LET r0 == DR(instr)
           addr == U16(reg[R_PC] + Offset6(instr))
       IN  \E key \in Poll(addr) :
              Break(update_flags([reg EXCEPT ![r0] = mem_read(memory, addr, key)], r0),
                    mem_read_mem(memory, addr, key),
                    {r0, R_PC, R_COND}, {addr},
                    Forget(st_log, PollWrites(addr, key)))

ExecLDR ==
    /\ pc = "exec"
    /\ Op(instr) = OP_LDR
    /\ LET r0 == DR(instr)
           base_r == SR1(instr)
           addr == U16(reg[base_r] + Offset6(instr))
       IN  \E key \in Poll(addr) :
              Break(update_flags([reg EXCEPT ![r0] = mem_read(memory, addr, key)], r0),
                    mem_read_mem(memory, addr, key),
                    {r0, base_r, R_COND}, {addr},
                    Forget(st_log, PollWrites(addr, key)))

\* An LEA that leaves the condition codes alone.
ExecLEA_noflags ==
    /\ pc = "exec"
    /\ Op(instr) = OP_LEA
    /\ Break([reg EXCEPT ![DR(instr)] = U16(reg[R_PC] + PCOffset9(instr))], memory,
             {DR(instr), R_PC}, {}, st_log)

ExecLEA ==
    /\ pc = "exec"
    /\ Op(instr) = OP_LEA
    /\ LET r0 == DR(instr)
           rg == [reg EXCEPT ![r0] = U16(reg[R_PC] + PCOffset9(instr))]
       IN  Break(update_flags(rg, r0), memory, {r0, R_PC, R_COND}, {}, st_log)

\* mem_write(reg[R_PC] + pc_offset, sr): the register number is what is stored.
ExecST ==
    /\ pc = "exec"
    /\ Op(instr) = OP_ST
    /\ LET sr == DR(instr)
           addr == U16(reg[R_PC] + PCOffset9(instr))
       IN  Break(reg, mem_write(memory, addr, sr), {R_PC}, {addr},
                 Store(st_log, addr, reg[sr]))

\* The words reg[i] can give: reg[i] itself inside the array, anything or a
\* fault outside it.
RegRead(i) == IF i < R_COUNT THEN {<<reg[i]>>} ELSE UBReads

\* mem_write(mem_read(reg[R_PC + pc_offset]), reg[sr]): the pointer is read
\* through element R_PC + pc_offset of the register file.
ExecSTI ==
    /\ pc = "exec"
    /\ Op(instr) = OP_STI
    /\ LET sr == DR(instr)
           idx == R_PC + PCOffset9(instr)
       IN  \E slot \in RegRead(idx) :
              IF slot = <<>>
              THEN Fault(reg, {idx}, {})
              ELSE \E key \in Poll(slot[1]) :
                      LET m1 == mem_read_mem(memory, slot[1], key)
                          addr == mem_read(memory, slot[1], key)
                      IN  Break(reg, mem_write(m1, addr, reg[sr]),
                                {idx, sr}, {slot[1], addr},
                                Forget(st_log, PollWrites(slot[1], key) \cup {addr}))

\* mem_write(reg[base_r] + offset, sr): the register number is what is stored.
ExecSTR ==
    /\ pc = "exec"
    /\ Op(instr) = OP_STR
    /\ LET sr == DR(instr)
           base_r == SR1(instr)
           addr == U16(reg[base_r] + Offset6(instr))
       IN  Break(reg, mem_write(memory, addr, sr), {base_r}, {addr},
                 Forget(st_log, {addr}))

(* ------------------------------- traps --------------------------------- *)

\* What a trap routine leaves: the registers, the output, `running`, the
\* indices it used, and whether it faulted.
Done(rg, out, run, ra, ma) ==
    [rg |-> rg, out |-> out, run |-> run, ra |-> ra, ma |-> ma, segv |-> FALSE]

\* TRAP GETC: a byte is read into R0 and the flags follow it.
trap_getc(rg, out, run, in) ==
    Done(update_flags([rg EXCEPT ![R_R0] = in], R_R0), out, run, {R_R0, R_COND}, {})

\* TRAP OUT: the low byte of R0 is written.
trap_out(rg, out, run) ==
    Done(rg, Append(out, rg[R_R0] % 256), run, {R_R0}, {})

RECURSIVE WalkEnd(_, _)
\* Where the walk `while (*c) ++c` from memory + a stops: at the first zero
\* word, or at MEMORY_MAX, the first element behind the array.
WalkEnd(m, a) ==
    IF a >= MEMORY_MAX \/ Mem(m, a) = 0 THEN a ELSE WalkEnd(m, a + 1)

\* putc((char)*c, stdout) for the words from a up to end.
WalkBytes(m, a, end) == [i \in 1..(end - a) |-> Mem(m, a + i - 1) % 256]

\* What the walk from R0 can meet: nothing unusual while it stops inside the
\* array, anything once it leaves it.
PutsUB(rg, m) ==
    IF WalkEnd(m, rg[R_R0]) = MEMORY_MAX
    THEN UBWalks
    ELSE {[tail |-> <<>>, segv |-> FALSE]}

\* TRAP PUTS: uint16_t* c = memory + reg[R_R0]; while (*c) { putc; ++c; }
trap_puts(rg, m, out, run, ub) ==
    LET start == rg[R_R0]
        end == WalkEnd(m, start)
        last == end + Len(ub.tail)
    IN  [rg |-> rg,
         out |-> out \o WalkBytes(m, start, end) \o ub.tail,
         run |-> run,
         ra |-> {R_R0},
         ma |-> start..last,
         segv |-> ub.segv]

\* "Enter a character: "
InPrompt == <<69, 110, 116, 101, 114, 32, 97, 32, 99, 104, 97, 114, 97, 99, 116,
              101, 114, 58, 32>>

\* TRAP IN: a prompt, then a byte is read into R0 and echoed; the flags follow.
trap_in(rg, out, run, in) ==
    Done(update_flags([rg EXCEPT ![R_R0] = in], R_R0),
         Append(out \o InPrompt, in), run, {R_R0, R_COND}, {})

RECURSIVE PutspBytes(_, _)
\* The bytes TRAP PUTSP writes: per word the low byte, then the high byte
\* unless it is zero.
PutspBytes(m, a) ==
    IF Mem(m, a) = 0 THEN <<>>
    ELSE LET lo == Mem(m, a) % 256
             hi == Shr(Mem(m, a), 8)
         IN  (IF hi # 0 THEN <<lo, hi>> ELSE <<lo>>) \o PutspBytes(m, U16(a + 1))

RECURSIVE PutspWords(_, _)
\* The addresses TRAP PUTSP reads, the zero word's included.
PutspWords(m, a) == IF Mem(m, a) = 0 THEN {a} ELSE {a} \cup PutspWords(m, U16(a + 1))

\* TRAP PUTSP: the packed string at memory[R0].
trap_putsp(rg, m, out, run) ==
    Done(rg, out \o PutspBytes(m, rg[R_R0]), run, {R_R0}, PutspWords(m, rg[R_R0]))

\* "HALT\n"
HaltBanner == <<72, 65, 76, 84, 10>>

\* TRAP HALT: the banner is written and `running` is cleared.
trap_halt(rg, out) ==
    Done(rg, out \o HaltBanner, 0, {}, {})

\* switch (instr & 0xFF): the routine of the vector, nothing for a vector
\* that has no case.
TrapRoutine(vect, rg, m, out, run, in, ub) ==
    CASE vect = TRAP_GETC -> trap_getc(rg, out, run, in)
      [] vect = TRAP_OUT -> trap_out(rg, out, run)
      [] vect = TRAP_PUTS -> trap_puts(rg, m, out, run, ub)
      [] vect = TRAP_IN -> trap_in(rg, out, run, in)
      [] vect = TRAP_PUTSP -> trap_putsp(rg, m, out, run)
      [] vect = TRAP_HALT -> trap_halt(rg, out)
      [] OTHER -> Done(rg, out, run, {}, {})

\* case OP_TRAP: R7 <- PC, the routine of the vector, and then, the case
\* having no break, the abort() of the cases that follow it.
ExecTRAP ==
    /\ pc = "exec"
    /\ Op(instr) = OP_TRAP
    /\ LET vect == TrapVect(instr)
           rg7 == [reg EXCEPT ![R_R7] = reg[R_PC]]
       IN  \E in \in (IF vect \in {TRAP_GETC, TRAP_IN} THEN InBytes ELSE {0}),
              ub \in (IF vect = TRAP_PUTS THEN PutsUB(rg7, memory)
                      ELSE {[tail |-> <<>>, segv |-> FALSE]}) :
              LET res == TrapRoutine(vect, rg7, memory, stdout, running, in, ub)
              IN  IF res.segv
                  THEN Fault(res.rg, {R_R7, R_PC} \cup res.ra, res.ma)
                  ELSE Abort(res.rg, memory, {R_R7, R_PC} \cup res.ra, res.ma,
                             res.out, res.run)

\* case OP_RES: case OP_RTI: default: abort();
ExecRES ==
    /\ pc = "exec"
    /\ Op(instr) \in {OP_RES, OP_RTI}
    /\ Abort(reg, memory, {}, {}, stdout, running)

\* void handle_interrupt(int signal): SIGINT restores the terminal, writes a
\* newline and exits with status -2.
Interrupt ==
    /\ Live
    /\ tty_raw' = FALSE
    /\ stdout' = Append(stdout, 10)
    /\ pc' = "sigint"
    /\ UNCHANGED <<memory, reg, instr, running, steps, regAcc, memAcc, st_log, hist, se>>

Next ==
    \/ Fetch
    \/ ExecADD
    \/ ExecAND
    \/ ExecNOT
    \/ ExecBR
    \/ ExecJMP
    \/ ExecJSR
    \/ ExecLD
    \/ ExecLDI
    \/ ExecLDR
    \/ ExecLEA
    \/ ExecST
    \/ ExecSTI
    \/ ExecSTR
    \/ ExecTRAP
    \/ ExecRES
    \/ Interrupt

Spec == Init /\ [][Next]_vars

(* ------------------------ sign_extend on its own ----------------------- *)

\* The field widths the decoder passes to sign_extend: imm5, offset6,
\* pc_offset (9 bits) and the JSR pc_offset (11 bits).
FieldWidths == {5, 6, 9, 11}

\* A call sign_extend(x, bit_count) with a field of a decoder's width, the
\* machine at rest.
InitSE ==
    /\ \E n \in FieldWidths : \E v \in 0..(2 ^ n - 1) :
          se = [x |-> v, bit_count |-> n, out |-> <<>>]
    /\ memory = ZeroMemory
    /\ reg = [r \in 0..(R_COUNT - 1) |->
                IF r = R_COND THEN FL_ZRO ELSE IF r = R_PC THEN PC_START ELSE 0]
    /\ instr = 0
    /\ running = 1
    /\ pc = "fetch"
    /\ tty_raw = TRUE
    /\ stdout = <<>>
    /\ steps = 0
    /\ regAcc = {}
    /\ memAcc = {}
    /\ st_log = ZeroMemory
    /\ hist = [sti |-> ZeroMemory, link |-> <<>>, lea |-> ZeroMemory]

\* The call returns.
SignExtend ==
    /\ se.out = <<>>
    /\ se' = [se EXCEPT !.out = <<sign_extend(se.x, se.bit_count)>>]
    /\ UNCHANGED <<memory, reg, instr, running, pc, tty_raw, stdout, steps,
                   regAcc, memAcc, st_log, hist>>

NextSE == SignExtend

SpecSE == InitSE /\ [][NextSE]_vars

(* ------------------------------ properties ----------------------------- *)

\* The instruction in `instr` is being executed by this step (SIGINT is not
\* what ends it).
Executes(op) == pc = "exec" /\ Field(instr, 12, 4) = op /\ pc' # "sigint"

\* The instruction in `instr` has been executed and the loop is back at FETCH.
Executed(op) == pc = "fetch" /\ steps > 0 /\ Field(instr, 12, 4) = op

\* C1: COND always holds exactly one of N, Z, P; before the first fetch it is
\* Z and PC is 0x3000.
C1_CondOneHot ==
    /\ reg[R_COND] \in {FL_NEG, FL_ZRO, FL_POS}
    /\ steps = 0 => (reg[R_COND] = FL_ZRO /\ reg[R_PC] = PC_START)

\* C1 witness: an ADD has run and left COND = N.
C1_Witness == Executed(OP_ADD) /\ reg[R_COND] = FL_NEG

\* C2: a TRAP GETC, OUT, PUTS, IN or PUTSP returns to the fetch loop with R7
\* and PC both holding the address of the instruction after the TRAP.
C2_TrapReturns ==
    [][(Executes(OP_TRAP)
          /\ Field(instr, 0, 8) \in {TRAP_GETC, TRAP_OUT, TRAP_PUTS, TRAP_IN, TRAP_PUTSP})
        => (pc' = "fetch" /\ reg'[R_R7] = reg[R_PC] /\ reg'[R_PC] = reg[R_PC])]_vars

\* C3: TRAP HALT leaves the loop for the shutdown code: the process exits
\* with status 0 and the terminal restored.
C3_HaltExitsNormally ==
    [][(Executes(OP_TRAP) /\ Field(instr, 0, 8) = TRAP_HALT)
        => (pc' = "exit0" /\ ~tty_raw')]_vars

\* C4: the machine ends the run after an instruction (by leaving the loop or
\* by abort()) only if that instruction is TRAP HALT, RTI or the reserved
\* opcode; after any other instruction the loop fetches again.
C4_StopsOnlyOnHaltOrFatal ==
    [][(pc = "exec" /\ pc' \in {"abort", "exit0"})
        => \/ (Field(instr, 12, 4) = OP_TRAP /\ Field(instr, 0, 8) = TRAP_HALT)
           \/ Field(instr, 12, 4) \in {OP_RTI, OP_RES}]_vars

\* C5: when the process has ended by a fatal decode (RTI, reserved), a normal
\* halt or SIGINT, the terminal is no longer in raw mode.
C5_TerminalRestored ==
    (\/ pc = "sigint"
     \/ pc = "exit0"
     \/ (pc = "abort" /\ Field(instr, 12, 4) \in {OP_RTI, OP_RES}))
    => ~tty_raw

\* C6: a TRAP with a vector outside 0x20..0x25 only sets R7 to PC and the
\* loop fetches the next instruction.
C6_UnknownTrapIsNoOp ==
    [][(Executes(OP_TRAP) /\ Field(instr, 0, 8) \notin TRAP_GETC..TRAP_HALT)
        => (/\ pc' = "fetch"
            /\ reg' = [reg EXCEPT ![R_R7] = reg[R_PC]]
            /\ memory' = memory)]_vars

\* C7: every index used into reg is in 0..9 and every index used into memory
\* is in 0..0xFFFF.
C7_AccessesInRange ==
    /\ regAcc \subseteq 0..(R_COUNT - 1)
    /\ memAcc \subseteq 0..(MEMORY_MAX - 1)

\* C8: ADD leaves reg[DR] = (reg[SR1] + operand) mod 2^16, the operand being
\* the signed imm5 or reg[SR2] read before the write, and COND the flag of
\* that sum.
C8_AddBitExact ==
    [][Executes(OP_ADD)
        => LET operand == IF Field(instr, 5, 1) = 1
                          THEN Signed(Field(instr, 0, 5), 5)
                          ELSE reg[Field(instr, 0, 3)]
               sum == (reg[Field(instr, 6, 3)] + operand) % 65536
           IN  /\ reg'[Field(instr, 9, 3)] = sum
               /\ reg'[R_COND] = FlagOf(sum)]_vars

\* C8 witness: ADD R0, R0, #1 has turned 0x7FFF into 0x8000 with COND = N.
C8_Witness ==
    /\ Executed(OP_ADD)
    /\ instr = \h1021
    /\ reg[R_R0] = \h8000
    /\ reg[R_COND] = FL_NEG

\* C9: NOT leaves reg[DR] = the 16-bit complement of reg[SR1], and COND the
\* flag of it.
C9_NotComplementsValue ==
    [][Executes(OP_NOT)
        => LET value == 65535 - reg[Field(instr, 6, 3)]
           IN  /\ reg'[Field(instr, 9, 3)] = value
               /\ reg'[R_COND] = FlagOf(value)]_vars

\* C10: an LD from an address (not a keyboard register) that an ST targeted
\* and nothing wrote since loads the value the ST's source register held.
C10_StoreLoadRoundTrip ==
    [][(Executes(OP_LD) /\ pc' = "fetch")
        => LET addr == (reg[R_PC] + Signed(Field(instr, 0, 9), 9)) % 65536
           IN  (addr \in DOMAIN st_log /\ addr \notin {MR_KBSR, MR_KBDR})
               => reg'[Field(instr, 9, 3)] = st_log[addr]]_vars

\* The words of m1 and m2 differ at most at the addresses in `at`.
SameMemoryBut(m1, m2, at) ==
    \A a \in ((DOMAIN m1) \cup (DOMAIN m2)) \ at : Mem(m1, a) = Mem(m2, a)

KeyboardRegs == {MR_KBSR, MR_KBDR}

\* C11: STI writes reg[SR] to the word its pointer slot mem[PC + sext(offset9)]
\* points to and to no other word; an LDI through a slot that still points to
\* that word, the word not written since, loads the value SR held.
C11_StoreLoadIndirectRoundTrip ==
    [][/\ (Executes(OP_STI) /\ pc' = "fetch"
             /\ PCRelative(reg, instr) \notin KeyboardRegs)
          => LET target == Mem(memory, PCRelative(reg, instr))
             IN  /\ Mem(memory', target) = reg[Field(instr, 9, 3)]
                 /\ SameMemoryBut(memory, memory', {target})
       /\ (Executes(OP_LDI) /\ pc' = "fetch"
             /\ PCRelative(reg, instr) \in DOMAIN hist.sti)
          => LET slot == PCRelative(reg, instr)
                 target == hist.sti[slot].target
             IN  (/\ Mem(memory, slot) = target
                  /\ slot \notin KeyboardRegs
                  /\ target \notin KeyboardRegs)
                 => reg'[Field(instr, 9, 3)] = hist.sti[slot].val]_vars

\* The address the instruction in `instr` was fetched from.
FetchedFrom == memAcc

\* C12: a JSR or JSRR at address A leaves A+1 in R7 and sets PC to
\* A+1+sext(instr[10:0], 11) (JSR) or to the base register's value (JSRR, the
\* base read once the link is saved); a JMP R7 executed while R7 still holds
\* the link sets PC to A+1.
C12_SubroutineLinkage ==
    [][/\ (Executes(OP_JSR) /\ pc' = "fetch")
          => \A A \in FetchedFrom :
                /\ reg'[R_R7] = (A + 1) % 65536
                /\ reg'[R_PC] =
                      IF Field(instr, 11, 1) = 1
                      THEN (A + 1 + Signed(Field(instr, 0, 11), 11)) % 65536
                      ELSE IF Field(instr, 6, 3) = R_R7 THEN (A + 1) % 65536
                      ELSE reg[Field(instr, 6, 3)]
       /\ (Executes(OP_JMP) /\ pc' = "fetch"
             /\ Field(instr, 6, 3) = R_R7 /\ hist.link # <<>>)
          => reg'[R_PC] = hist.link[1]]_vars

\* A RET has returned to the word after the JSRR that called it.
C12_Witness ==
    /\ Executed(OP_JMP)
    /\ instr = \hC1C0
    /\ hist.link = <<PC_START + 1>>
    /\ reg[R_PC] = PC_START + 1
    /\ reg[R_R7] = PC_START + 1

\* The general registers R0..R7.
General == R_R0..R_R7

\* C13: a BR at address A is taken exactly when one of its n, z, p bits
\* (11, 10, 9) is set together with the matching flag in COND; taken, it
\* leaves PC = A+1+sext(instr[8:0], 9) mod 2^16, not taken PC = A+1; COND,
\* R0..R7 and memory stay as they are.
C13_BranchTakenIffFlagMatches ==
    [][Executes(OP_BR)
       => \A A \in FetchedFrom :
             LET taken == \/ (Field(instr, 11, 1) = 1 /\ reg[R_COND] = FL_NEG)
                          \/ (Field(instr, 10, 1) = 1 /\ reg[R_COND] = FL_ZRO)
                          \/ (Field(instr, 9, 1) = 1 /\ reg[R_COND] = FL_POS)
             IN  /\ reg'[R_PC] = IF taken
                                 THEN (A + 1 + Signed(Field(instr, 0, 9), 9)) % 65536
                                 ELSE (A + 1) % 65536
                 /\ reg'[R_COND] = reg[R_COND]
                 /\ \A r \in General : reg'[r] = reg[r]
                 /\ SameMemoryBut(memory, memory', {})]_vars

\* A BRp #1 at 0x3000 was not taken with COND = Z, and the BRz #1 after it at
\* 0x3001 was taken to 0x3003.
C13_Witness ==
    /\ Executed(OP_BR)
    /\ instr = \h0401
    /\ steps = 2
    /\ Mem(memory, PC_START) = \h0201
    /\ reg[R_COND] = FL_ZRO
    /\ reg[R_PC] = PC_START + 3

\* The opcodes that write a destination register and update the flags, and
\* the traps that do.
FlagOps == {OP_ADD, OP_AND, OP_NOT, OP_LD, OP_LDI, OP_LDR, OP_LEA}
FlagTraps == {TRAP_GETC, TRAP_IN}

\* C14: a completed ADD, AND, NOT, LD, LDI, LDR or LEA leaves in COND the
\* class of the value it wrote to its destination register (Z for 0, N for
\* bit 15 set, P otherwise), and no other step changes COND, the traps that
\* read a character apart: so COND always classifies the last such value.
C14_CondReflectsLastWrite ==
    [][IF pc = "exec" /\ Field(instr, 12, 4) \in FlagOps /\ pc' = "fetch"
       THEN reg'[R_COND] = FlagOf(reg'[Field(instr, 9, 3)])
       ELSE (pc = "exec" /\ Field(instr, 12, 4) = OP_TRAP
               /\ Field(instr, 0, 8) \in FlagTraps /\ pc' # "sigint")
            \/ reg'[R_COND] = reg[R_COND]]_vars

\* NOT R1, R1 wrote a negative value, and the JMP R0 after it left COND = N.
C14_Witness ==
    /\ Executed(OP_JMP)
    /\ instr = \hC000
    /\ steps = 2
    /\ Mem(memory, PC_START) = \h927F
    /\ reg[1] >= 32768
    /\ reg[R_COND] = FL_NEG

\* The registers an LD of register r0 from the address addr leaves, as the
\* case OP_LD computes them (no key is polled: addr is not KBSR).
LoadDirect(r0, addr) ==
    update_flags([reg EXCEPT ![r0] = mem_read(memory, addr, <<>>)], r0)

\* C15: an LDR DR2, DR, #0 through a register DR that an LEA loaded with the
\* effective address E, E not a keyboard register, leaves DR2 and COND as an
\* LD DR2 with the effective address E leaves them: DR2 = mem[E], COND its
\* class.
C15_LeaLdrEqualsLd ==
    [][(/\ Executes(OP_LDR) /\ pc' = "fetch"
        /\ Field(instr, 0, 6) = 0
        /\ Field(instr, 6, 3) \in DOMAIN hist.lea)
       => LET E == hist.lea[Field(instr, 6, 3)]
              DR2 == Field(instr, 9, 3)
          IN  E \notin KeyboardRegs
              => /\ reg'[DR2] = LoadDirect(DR2, E)[DR2]
                 /\ reg'[R_COND] = LoadDirect(DR2, E)[R_COND]
                 /\ reg'[DR2] = Mem(memory, E)
                 /\ SameMemoryBut(memory, memory', {})]_vars

\* LEA R0, #1 at 0x3000 gave E = 0x3002, and LDR R1, R0, #0 loaded the word
\* 0x7FFF there.
C15_Witness ==
    /\ Executed(OP_LDR)
    /\ instr = \h6200
    /\ Mem(memory, PC_START) = \hE001
    /\ 0 \in DOMAIN hist.lea
    /\ hist.lea[0] = PC_START + 2
    /\ reg[1] = \h7FFF
    /\ reg[R_COND] = FL_POS

\* C16: an STR leaves in mem[(reg[SR1] + sext(instr[5:0], 6)) mod 2^16] the
\* value reg[SR] held before it (SR = bits 11:9), and changes no other memory
\* word, none of R0..R7 and not COND.
C16_StrStoresRegisterValue ==
    [][Executes(OP_STR)
       => LET addr == (reg[Field(instr, 6, 3)] + Signed(Field(instr, 0, 6), 6)) % 65536
          IN  /\ Mem(memory', addr) = reg[Field(instr, 9, 3)]
              /\ SameMemoryBut(memory, memory', {addr})
              /\ \A r \in General \cup {R_COND} : reg'[r] = reg[r]]_vars

\* C17: each pass of the loop reads the instruction word at the current PC
\* and then sets PC to (PC + 1) mod 2^16, so that a fetch at 0xFFFF leaves
\* PC = 0; and PC lies in 0 .. 0xFFFF in every state, the offset additions of
\* BR, JSR and LEA that overflow included.
C17_FetchAndPCWrap ==
    /\ [](reg[R_PC] \in 0..65535)
    /\ [][(pc = "fetch" /\ pc' = "exec")
          => /\ instr' = Mem(memory', reg[R_PC])
             /\ reg'[R_PC] = (reg[R_PC] + 1) % 65536]_vars

\* The BRnzp #-2 at address 0 went back past 0 to 0xFFFF, and the fetch there
\* left PC = 0.
C17_Witness ==
    /\ pc = "exec"
    /\ FetchedFrom = {65535}
    /\ reg[R_PC] = 0
    /\ Mem(memory, 0) = \h0FFE
    /\ steps = 3

\* C18: for a field width n in {5, 6, 9, 11} and 0 <= v < 2^n,
\* sign_extend(v, n) returns v when bit n-1 of v is 0 and v with the bits
\* n..15 set otherwise: the 16-bit two's-complement encoding of the n-bit
\* signed value of v.
C18_SignExtendCorrect ==
    se.out # <<>>
    => LET v == se.x
           n == se.bit_count
       IN  /\ se.out[1] = IF Field(v, n - 1, 1) = 0 THEN v ELSE v + (65536 - 2 ^ n)
           /\ se.out[1] = (Signed(v, n) + 65536) % 65536

\* sign_extend(0x7FF, 11) has returned 0xFFFF, the encoding of -1.
C18_Witness ==
    /\ se.x = \h7FF
    /\ se.bit_count = 11
    /\ se.out = <<\hFFFF>>

\* The addresses whose word a step changes, and: a step changes none of
\* R0..R7 and COND but those in `but`.
ChangedWords ==
    {a \in (DOMAIN memory) \cup (DOMAIN memory') : Mem(memory, a) # Mem(memory', a)}
SameRegsBut(but) == \A r \in (General \cup {R_COND}) \ but : reg'[r] = reg[r]

\* The frames of the instructions that write no memory: ADD, AND, NOT and LEA
\* change only reg[DR], COND and PC; BR and JMP at most PC; JSR and JSRR only
\* R7 and PC.
RegisterFrames ==
    /\ (\E op \in {OP_ADD, OP_AND, OP_NOT, OP_LEA} : Executes(op))
       => ChangedWords = {} /\ SameRegsBut({Field(instr, 9, 3), R_COND})
    /\ (Executes(OP_BR) \/ Executes(OP_JMP))
       => ChangedWords = {} /\ SameRegsBut({})
    /\ Executes(OP_JSR)
       => ChangedWords = {} /\ SameRegsBut({R_R7})

\* C19 as claimed: the register frames, and ST, STI and STR change only PC and
\* one memory word, R0..R7 and COND staying as they are.
C19_FrameOfEachClass ==
    [][/\ RegisterFrames
       /\ (\E op \in {OP_ST, OP_STI, OP_STR} : Executes(op))
          => Cardinality(ChangedWords) <= 1 /\ SameRegsBut({})]_vars

\* C19 as amended: the register frames; ST and STR change only PC and one
\* memory word; STI changes only PC and one memory word, and KBSR and KBDR
\* besides when it reads KBSR; none of the three changes R0..R7 or COND.
C19_FrameButKeyboardPoll ==
    [][/\ RegisterFrames
       /\ (Executes(OP_ST) \/ Executes(OP_STR))
          => Cardinality(ChangedWords) <= 1 /\ SameRegsBut({})
       /\ Executes(OP_STI)
          => /\ \/ Cardinality(ChangedWords) <= 1
                \/ (MR_KBSR \in memAcc' /\ Cardinality(ChangedWords \ KeyboardRegs) <= 1)
             /\ SameRegsBut({})]_vars

\* The STI R0, #0 in the word before KBSR read its pointer from KBSR with a
\* key waiting: KBSR became 0x8000 and the word at 0x8000 received R0.
C19_Witness ==
    /\ Executed(OP_STI)
    /\ instr = \hB000
    /\ MR_KBSR \in memAcc
    /\ Mem(memory, MR_KBSR) = \h8000
    /\ reg[R_R0] = MR_KBSR - 1
    /\ Mem(memory, \h8000) = MR_KBSR - 1

\* C20: a JSRR at address A reads its base register after R7 has received
\* the return address: with base R7 the PC after it is A+1, not what R7 held
\* before; with any other base Rb it is what Rb held before.
C20_JsrrReadsBaseAfterLink ==
    [][(Executes(OP_JSR) /\ Field(instr, 11, 1) = 0)
       => \A A \in FetchedFrom :
             IF Field(instr, 6, 3) = R_R7
             THEN reg'[R_PC] = (A + 1) % 65536
             ELSE reg'[R_PC] = reg[Field(instr, 6, 3)]]_vars

\* The JSRR R7 at 0x3000, run with R7 = 0, went on at 0x3001.
C20_Witness ==
    /\ Executed(OP_JSR)
    /\ instr = \h41C0
    /\ steps = 1
    /\ reg[R_PC] = PC_START + 1
    /\ reg[R_R7] = PC_START + 1

=============================================================================
